---- MODULE Spec2Model ----
(***************************************************************************)
(* Model of DreamAN/DrawHist/DISANAMMUtils.h: the three event filters      *)
(* (SelectExclusivePhiEvent, SelectPhiEvent_MissingKm, RejectPi0TwoPhoton) *)
(* and the three kinematics pipelines (InitKinematics_MissingKm,           *)
(* InitKinematics_MissingKp, InitKinematics), applied to one event of the  *)
(* REC_Particle_* columns.                                                 *)
(*                                                                         *)
(* Momenta and energies are integers in units of 1/Scale GeV.  Every value *)
(* of that grid below 2^24 is a single-precision float, so the columns of  *)
(* type float hold them exactly; ToFloat is the double -> float cast.      *)
(* Angles are counted in units of pi/4, rounded down.                      *)
(***************************************************************************)
EXTENDS Integers, Sequences, FiniteSets, TLC

VARIABLES event, beam_energy, op, accepted, row

vars == <<event, beam_energy, op, accepted, row>>

\* ------------------------------------------------------------------ bounds
\* Most particles of an event that is read particle by particle.
MaxParticles == 4

\* Grid units per GeV.
Scale == 4

\* ------------------------------------------------------- program constants
\* -999.0f, the value a selector returns when no particle matches.
Sentinel == -999 * Scale

kMe == (511 * Scale + 500000) \div 1000000
kMp == (938272 * Scale + 500000) \div 1000000
kMK == (493677 * Scale + 500000) \div 1000000

PidElectron == 11
PidProton == 2212
PidKPlus == 321
PidKMinus == -321
PidPhoton == 22

\* The result of a floating-point operation that has none (0/0, sqrt of a
\* negative number).
NaN == -(2^30)

\* --------------------------------------------------------------- arithmetic
\* Newton's iteration from a start x at or above the root of n.
RECURSIVE SqrtNewton(_, _)
SqrtNewton(n, x) ==
    LET y == (x + n \div x) \div 2
    IN IF y >= x THEN x ELSE SqrtNewton(n, y)

\* std::sqrt on the grid: the root rounded down; NaN below zero.
Sqrt(n) ==
    IF n < 0 THEN NaN
    ELSE IF n = 0 THEN 0
    ELSE SqrtNewton(n, IF n < 1024 THEN 32
                       ELSE IF n < 1048576 THEN 1024
                       ELSE 46341)

RECURSIVE FloatUlp(_)
FloatUlp(a) == IF a < 16777216 THEN 1 ELSE 2 * FloatUlp(a \div 2)

RoundNearestEven(a, u) ==
    LET lo == (a \div u) * u
        r  == a - lo
    IN IF 2 * r < u THEN lo
       ELSE IF 2 * r > u THEN lo + u
       ELSE IF (lo \div u) % 2 = 0 THEN lo ELSE lo + u

\* float(x) of a double x: 24 significant bits, round to nearest, ties to even.
ToFloat(x) ==
    IF x < 0 THEN -RoundNearestEven(-x, FloatUlp(-x))
             ELSE RoundNearestEven(x, FloatUlp(x))

\* ------------------------------------------------------ geometry helpers
MomentumFunc(px, py, pz) == Sqrt(px * px + py * py + pz * pz)

\* acos(pz / |p|) in units of pi/4, rounded down; 0/0 is NaN.
ThetaFunc(px, py, pz) ==
    LET p2 == px * px + py * py + pz * pz
    IN IF p2 = 0 THEN NaN
       ELSE IF pz > 0 THEN (IF 2 * pz * pz > p2 THEN 0 ELSE 1)
       ELSE IF 2 * pz * pz < p2 THEN 2
       ELSE IF pz * pz < p2 THEN 3
       ELSE 4

\* std::atan2(py, px) in units of pi/4, rounded down: -4 .. 4.
Atan2(py, px) ==
    IF py = 0 THEN (IF px >= 0 THEN 0 ELSE 4)
    ELSE IF py > 0 THEN
        (IF px > 0 THEN (IF py < px THEN 0 ELSE 1)
         ELSE IF -px < py THEN 2 ELSE 3)
    ELSE
        (IF px >= 0 THEN (IF -py <= px THEN -1 ELSE -2)
         ELSE IF -px <= -py THEN -3 ELSE -4)

\* The angle of atan2 as it is.
PhiFunc_NoShift(px, py) == Atan2(py, px)

PhiFunc(px, py) ==
    LET phi == Atan2(py, px)
    IN IF phi < 0 THEN phi + 8 ELSE phi

\* ------------------------------------------------------- particle selectors
\* The lambda of every Define("<species>_<comp>", ...): the component of the
\* first particle of the species that passes, or -999.0f.
\* A selector that forgets the quality flag.
RECURSIVE SelectLoop_IgnoresPass(_, _, _, _)
SelectLoop_IgnoresPass(ev, i, target, comp) ==
    IF i > Len(ev) THEN Sentinel
    ELSE IF ev[i].pid = target THEN ev[i][comp]
    ELSE SelectLoop_IgnoresPass(ev, i + 1, target, comp)

RECURSIVE SelectLoop(_, _, _, _)
SelectLoop(ev, i, target, comp) ==
    IF i > Len(ev) THEN Sentinel
    ELSE IF ev[i].pid = target /\ ev[i].pass THEN ev[i][comp]
    ELSE SelectLoop(ev, i + 1, target, comp)

SelectComponent(ev, target, comp) == SelectLoop(ev, 1, target, comp)

\* ------------------------------------------------------------ event filters
\* The loop of SelectExclusivePhiEvent; c holds e, km, kp, p, hasPhiDaughter.
\* Both assignments to hasPhiDaughter read only hasPhiDaughter itself: the
\* "|| daughterPass[i]" part is commented out.
\* The loop with the commented-out daughter check switched on.
RECURSIVE ExclusivePhiLoop_ChecksDaughter(_, _, _)
ExclusivePhiLoop_ChecksDaughter(ev, i, c) ==
    IF i > Len(ev) THEN c
    ELSE IF ~ev[i].pass THEN ExclusivePhiLoop_ChecksDaughter(ev, i + 1, c)
    ELSE IF ev[i].pid = PidElectron
        THEN ExclusivePhiLoop_ChecksDaughter(ev, i + 1, [c EXCEPT !.e = @ + 1])
    ELSE IF ev[i].pid = PidKPlus
        THEN ExclusivePhiLoop_ChecksDaughter(ev, i + 1,
                 [c EXCEPT !.kp = @ + 1,
                           !.hasPhiDaughter = c.hasPhiDaughter /\ ev[i].daughterPass])
    ELSE IF ev[i].pid = PidKMinus
        THEN ExclusivePhiLoop_ChecksDaughter(ev, i + 1,
                 [c EXCEPT !.km = @ + 1,
                           !.hasPhiDaughter = c.hasPhiDaughter /\ ev[i].daughterPass])
    ELSE IF ev[i].pid = PidProton
        THEN ExclusivePhiLoop_ChecksDaughter(ev, i + 1, [c EXCEPT !.p = @ + 1])
    ELSE ExclusivePhiLoop_ChecksDaughter(ev, i + 1, c)

RECURSIVE ExclusivePhiLoop(_, _, _)
ExclusivePhiLoop(ev, i, c) ==
    IF i > Len(ev) THEN c
    ELSE IF ~ev[i].pass THEN ExclusivePhiLoop(ev, i + 1, c)
    ELSE IF ev[i].pid = PidElectron
        THEN ExclusivePhiLoop(ev, i + 1, [c EXCEPT !.e = @ + 1])
    ELSE IF ev[i].pid = PidKPlus
        THEN ExclusivePhiLoop(ev, i + 1,
                 [c EXCEPT !.kp = @ + 1, !.hasPhiDaughter = c.hasPhiDaughter])
    ELSE IF ev[i].pid = PidKMinus
        THEN ExclusivePhiLoop(ev, i + 1,
                 [c EXCEPT !.km = @ + 1, !.hasPhiDaughter = c.hasPhiDaughter])
    ELSE IF ev[i].pid = PidProton
        THEN ExclusivePhiLoop(ev, i + 1, [c EXCEPT !.p = @ + 1])
    ELSE ExclusivePhiLoop(ev, i + 1, c)

ExclusivePhiVerdict(ev) ==
    LET c == ExclusivePhiLoop(ev, 1,
                 [e |-> 0, km |-> 0, kp |-> 0, p |-> 0, hasPhiDaughter |-> TRUE])
    IN c.e = 1 /\ c.kp >= 1 /\ c.km >= 1 /\ c.p >= 1 /\ c.hasPhiDaughter

\* The loop of SelectPhiEvent_MissingKm; c holds e, kp, p.
\* A loop that takes a K- for a K+.
RECURSIVE MissingKmLoop_CountsKMinus(_, _, _)
MissingKmLoop_CountsKMinus(ev, i, c) ==
    IF i > Len(ev) THEN c
    ELSE IF ~ev[i].pass THEN MissingKmLoop_CountsKMinus(ev, i + 1, c)
    ELSE IF ev[i].pid = PidElectron
        THEN MissingKmLoop_CountsKMinus(ev, i + 1, [c EXCEPT !.e = @ + 1])
    ELSE IF ev[i].pid = PidKPlus \/ ev[i].pid = PidKMinus
        THEN MissingKmLoop_CountsKMinus(ev, i + 1, [c EXCEPT !.kp = @ + 1])
    ELSE IF ev[i].pid = PidProton
        THEN MissingKmLoop_CountsKMinus(ev, i + 1, [c EXCEPT !.p = @ + 1])
    ELSE MissingKmLoop_CountsKMinus(ev, i + 1, c)

RECURSIVE MissingKmLoop(_, _, _)
MissingKmLoop(ev, i, c) ==
    IF i > Len(ev) THEN c
    ELSE IF ~ev[i].pass THEN MissingKmLoop(ev, i + 1, c)
    ELSE IF ev[i].pid = PidElectron
        THEN MissingKmLoop(ev, i + 1, [c EXCEPT !.e = @ + 1])
    ELSE IF ev[i].pid = PidKPlus
        THEN MissingKmLoop(ev, i + 1, [c EXCEPT !.kp = @ + 1])
    ELSE IF ev[i].pid = PidProton
        THEN MissingKmLoop(ev, i + 1, [c EXCEPT !.p = @ + 1])
    ELSE MissingKmLoop(ev, i + 1, c)

MissingKmVerdict(ev) ==
    LET c == MissingKmLoop(ev, 1, [e |-> 0, kp |-> 0, p |-> 0])
    IN c.e = 1 /\ c.kp >= 1 /\ c.p >= 1

\* The loop of RejectPi0TwoPhoton; c holds e, g, p and the early return.
\* A loop that looks at the daughter flag of photons only.
RECURSIVE Pi0Loop_PhotonsOnly(_, _, _)
Pi0Loop_PhotonsOnly(ev, i, c) ==
    IF i > Len(ev) THEN c
    ELSE IF ~ev[i].pass THEN Pi0Loop_PhotonsOnly(ev, i + 1, c)
    ELSE IF ev[i].pid = PidPhoton /\ ev[i].daughterPass
        THEN [c EXCEPT !.returned = TRUE]
    ELSE IF ev[i].pid = PidElectron
        THEN Pi0Loop_PhotonsOnly(ev, i + 1, [c EXCEPT !.e = @ + 1])
    ELSE IF ev[i].pid = PidPhoton
        THEN Pi0Loop_PhotonsOnly(ev, i + 1, [c EXCEPT !.g = @ + 1])
    ELSE IF ev[i].pid = PidProton
        THEN Pi0Loop_PhotonsOnly(ev, i + 1, [c EXCEPT !.p = @ + 1])
    ELSE Pi0Loop_PhotonsOnly(ev, i + 1, c)

RECURSIVE Pi0Loop(_, _, _)
Pi0Loop(ev, i, c) ==
    IF i > Len(ev) THEN c
    ELSE IF ~ev[i].pass THEN Pi0Loop(ev, i + 1, c)
    ELSE IF ev[i].daughterPass THEN [c EXCEPT !.returned = TRUE]
    ELSE IF ev[i].pid = PidElectron
        THEN Pi0Loop(ev, i + 1, [c EXCEPT !.e = @ + 1])
    ELSE IF ev[i].pid = PidPhoton
        THEN Pi0Loop(ev, i + 1, [c EXCEPT !.g = @ + 1])
    ELSE IF ev[i].pid = PidProton
        THEN Pi0Loop(ev, i + 1, [c EXCEPT !.p = @ + 1])
    ELSE Pi0Loop(ev, i + 1, c)

Pi0Verdict(ev) ==
    LET c == Pi0Loop(ev, 1, [e |-> 0, g |-> 0, p |-> 0, returned |-> FALSE])
    IN IF c.returned THEN FALSE ELSE c.e = 1 /\ c.g = 1 /\ c.p = 1

\* --------------------------------------------------------------- four-vectors
TLorentzVector(x, y, z, t) == [X |-> x, Y |-> y, Z |-> z, T |-> t]

LVAdd(a, b) == [X |-> a.X + b.X, Y |-> a.Y + b.Y, Z |-> a.Z + b.Z, T |-> a.T + b.T]

LVSub(a, b) == [X |-> a.X - b.X, Y |-> a.Y - b.Y, Z |-> a.Z - b.Z, T |-> a.T - b.T]

\* TLorentzVector(px, py, pz, std::sqrt(px*px + py*py + pz*pz + m*m)).
OnShell(px, py, pz, m) ==
    TLorentzVector(px, py, pz, Sqrt(px * px + py * py + pz * pz + m * m))

\* The sum with the detected kaon added instead of subtracted.
MissingFourVector_AddsKaon(beam, e, p, k, me, mp, mk) ==
    LET pBeam == TLorentzVector(0, 0, beam, beam)
        pTarg == TLorentzVector(0, 0, 0, mp)
        ve    == OnShell(e[1], e[2], e[3], me)
        vp    == OnShell(p[1], p[2], p[3], mp)
        vk    == OnShell(k[1], k[2], k[3], mk)
    IN LVAdd(LVSub(LVSub(LVAdd(pBeam, pTarg), ve), vp), vk)

\* The sum with the target given the momentum of its mass.
MissingFourVector_MovingTarget(beam, e, p, k, me, mp, mk) ==
    LET pBeam == TLorentzVector(0, 0, beam, beam)
        pTarg == TLorentzVector(0, 0, mp, mp)
        ve    == OnShell(e[1], e[2], e[3], me)
        vp    == OnShell(p[1], p[2], p[3], mp)
        vk    == OnShell(k[1], k[2], k[3], mk)
    IN LVSub(LVSub(LVSub(LVAdd(pBeam, pTarg), ve), vp), vk)

\* pBeam + pTarg - e - p - k of the lambdas of kMinus_miss_* and kPlus_miss_*,
\* for an electron e, a proton p and a detected kaon k (triples <<px, py, pz>>)
\* and the rest masses me, mp, mk.
MissingFourVector(beam, e, p, k, me, mp, mk) ==
    LET pBeam == TLorentzVector(0, 0, beam, beam)
        pTarg == TLorentzVector(0, 0, 0, mp)
        ve    == OnShell(e[1], e[2], e[3], me)
        vp    == OnShell(p[1], p[2], p[3], mp)
        vk    == OnShell(k[1], k[2], k[3], mk)
    IN LVSub(LVSub(LVSub(LVAdd(pBeam, pTarg), ve), vp), vk)

\* The columns define_DISCAT adds, one per DISANAMath getter.
ObservableNames ==
    {"Q2", "xB", "t", "phi", "W", "nu", "y", "Mx2_ep", "Emiss", "PTmiss",
     "Mx2_epKpKm", "Mx2_eKpKm", "Mx2_epKp", "Mx2_epKm", "DeltaPhi",
     "Theta_g_phimeson", "Theta_e_phimeson", "DeltaE"}

\* The row of an event that produced none.
NoRow == [mode |-> "none"]

\* The twelve Defines of recel_*, recpro_*, reckMinus_* and reckPlus_*, for the
\* column triples <<px, py, pz>> each of them names, with the two kaon
\* triples exchanged.
TwelveScalars_SwapsKaons(ele, pro, kMinus, kPlus) ==
    [recel_p         |-> MomentumFunc(ele[1], ele[2], ele[3]),
     recel_theta     |-> ThetaFunc(ele[1], ele[2], ele[3]),
     recel_phi       |-> PhiFunc(ele[1], ele[2]),
     recpro_p        |-> MomentumFunc(pro[1], pro[2], pro[3]),
     recpro_theta    |-> ThetaFunc(pro[1], pro[2], pro[3]),
     recpro_phi      |-> PhiFunc(pro[1], pro[2]),
     reckMinus_p     |-> MomentumFunc(kPlus[1], kPlus[2], kPlus[3]),
     reckMinus_theta |-> ThetaFunc(kPlus[1], kPlus[2], kPlus[3]),
     reckMinus_phi   |-> PhiFunc(kPlus[1], kPlus[2]),
     reckPlus_p      |-> MomentumFunc(kMinus[1], kMinus[2], kMinus[3]),
     reckPlus_theta  |-> ThetaFunc(kMinus[1], kMinus[2], kMinus[3]),
     reckPlus_phi    |-> PhiFunc(kMinus[1], kMinus[2])]

\* The twelve Defines of recel_*, recpro_*, reckMinus_* and reckPlus_*, for the
\* column triples <<px, py, pz>> each of them names.
TwelveScalars(ele, pro, kMinus, kPlus) ==
    [recel_p         |-> MomentumFunc(ele[1], ele[2], ele[3]),
     recel_theta     |-> ThetaFunc(ele[1], ele[2], ele[3]),
     recel_phi       |-> PhiFunc(ele[1], ele[2]),
     recpro_p        |-> MomentumFunc(pro[1], pro[2], pro[3]),
     recpro_theta    |-> ThetaFunc(pro[1], pro[2], pro[3]),
     recpro_phi      |-> PhiFunc(pro[1], pro[2]),
     reckMinus_p     |-> MomentumFunc(kMinus[1], kMinus[2], kMinus[3]),
     reckMinus_theta |-> ThetaFunc(kMinus[1], kMinus[2], kMinus[3]),
     reckMinus_phi   |-> PhiFunc(kMinus[1], kMinus[2]),
     reckPlus_p      |-> MomentumFunc(kPlus[1], kPlus[2], kPlus[3]),
     reckPlus_theta  |-> ThetaFunc(kPlus[1], kPlus[2], kPlus[3]),
     reckPlus_phi    |-> PhiFunc(kPlus[1], kPlus[2])]

\* ------------------------------------------------ InitKinematics_MissingKm
\* A pipeline that selects the K- it is to reconstruct.
KmDetectedKaon_KMinus == PidKMinus

\* The kaon the pipeline selects: pid[i] == 321.
KmDetectedKaon == PidKPlus

MissingKmRow(ev, beam) ==
    LET ele_px   == SelectComponent(ev, PidElectron, "px")
        ele_py   == SelectComponent(ev, PidElectron, "py")
        ele_pz   == SelectComponent(ev, PidElectron, "pz")
        pro_px   == SelectComponent(ev, PidProton, "px")
        pro_py   == SelectComponent(ev, PidProton, "py")
        pro_pz   == SelectComponent(ev, PidProton, "pz")
        kPlus_px == SelectComponent(ev, KmDetectedKaon, "px")
        kPlus_py == SelectComponent(ev, KmDetectedKaon, "py")
        kPlus_pz == SelectComponent(ev, KmDetectedKaon, "pz")
        miss     == MissingFourVector(beam, <<ele_px, ele_py, ele_pz>>,
                        <<pro_px, pro_py, pro_pz>>,
                        <<kPlus_px, kPlus_py, kPlus_pz>>, kMe, kMp, kMK)
        kMinus_miss_px == ToFloat(miss.X)
        kMinus_miss_py == ToFloat(miss.Y)
        kMinus_miss_pz == ToFloat(miss.Z)
    IN [mode |-> "MissingKm",
        ele_px |-> ele_px, ele_py |-> ele_py, ele_pz |-> ele_pz,
        pro_px |-> pro_px, pro_py |-> pro_py, pro_pz |-> pro_pz,
        kPlus_px |-> kPlus_px, kPlus_py |-> kPlus_py, kPlus_pz |-> kPlus_pz,
        kMinus_miss_px |-> kMinus_miss_px,
        kMinus_miss_py |-> kMinus_miss_py,
        kMinus_miss_pz |-> kMinus_miss_pz,
        observables |-> ObservableNames]
       @@ TwelveScalars(<<ele_px, ele_py, ele_pz>>, <<pro_px, pro_py, pro_pz>>,
                        <<kMinus_miss_px, kMinus_miss_py, kMinus_miss_pz>>,
                        <<kPlus_px, kPlus_py, kPlus_pz>>)

\* ------------------------------------------------ InitKinematics_MissingKp
\* The lambda of Mx_epKm_forCut.
MxForCut(v) == IF v > 0 THEN Sqrt(v) ELSE Sentinel

\* A pipeline that selects the K+ it is to reconstruct.
KpDetectedKaon_KPlus == PidKPlus

\* The kaon the pipeline selects: pid[i] == -321.
KpDetectedKaon == PidKMinus

\* The columns defined before the define_DISCAT calls.
MissingKpColumns(ev, beam) ==
    LET ele_px    == SelectComponent(ev, PidElectron, "px")
        ele_py    == SelectComponent(ev, PidElectron, "py")
        ele_pz    == SelectComponent(ev, PidElectron, "pz")
        pro_px    == SelectComponent(ev, PidProton, "px")
        pro_py    == SelectComponent(ev, PidProton, "py")
        pro_pz    == SelectComponent(ev, PidProton, "pz")
        kMinus_px == SelectComponent(ev, KpDetectedKaon, "px")
        kMinus_py == SelectComponent(ev, KpDetectedKaon, "py")
        kMinus_pz == SelectComponent(ev, KpDetectedKaon, "pz")
        miss      == MissingFourVector(beam, <<ele_px, ele_py, ele_pz>>,
                         <<pro_px, pro_py, pro_pz>>,
                         <<kMinus_px, kMinus_py, kMinus_pz>>, kMe, kMp, kMK)
        kPlus_miss_px == ToFloat(miss.X)
        kPlus_miss_py == ToFloat(miss.Y)
        kPlus_miss_pz == ToFloat(miss.Z)
    IN [mode |-> "MissingKp",
        ele_px |-> ele_px, ele_py |-> ele_py, ele_pz |-> ele_pz,
        pro_px |-> pro_px, pro_py |-> pro_py, pro_pz |-> pro_pz,
        kMinus_px |-> kMinus_px, kMinus_py |-> kMinus_py, kMinus_pz |-> kMinus_pz,
        kPlus_miss_px |-> kPlus_miss_px,
        kPlus_miss_py |-> kPlus_miss_py,
        kPlus_miss_pz |-> kPlus_miss_pz]
       @@ TwelveScalars(<<ele_px, ele_py, ele_pz>>, <<pro_px, pro_py, pro_pz>>,
                        <<kMinus_px, kMinus_py, kMinus_pz>>,
                        <<kPlus_miss_px, kPlus_miss_py, kPlus_miss_pz>>)

\* The row: the columns, the observables of define_DISCAT and the two
\* aliases; mx2 is the value DISANAMath::GetMx2_epKm returns for the event.
MissingKpRow(columns, mx2) ==
    LET Mx2_epKm_forCut == mx2
    IN columns @@ [observables |-> ObservableNames,
                   Mx2_epKm |-> mx2,
                   Mx2_epKm_forCut |-> Mx2_epKm_forCut,
                   Mx_epKm_forCut |-> MxForCut(Mx2_epKm_forCut)]

\* ---------------------------------------------------------- InitKinematics
Abs(n) == IF n < 0 THEN -n ELSE n

\* The lambda of every Define("<species>_det_region", ...).
\* The lambda without std::abs.
RECURSIVE DetRegionLoop_NoAbs(_, _, _)
DetRegionLoop_NoAbs(ev, i, target) ==
    IF i > Len(ev) THEN -1
    ELSE IF ev[i].pid = target /\ ev[i].pass THEN
        LET abs_status == ev[i].status
        IN IF abs_status >= 1000 /\ abs_status < 2000 THEN 0
           ELSE IF abs_status >= 2000 /\ abs_status < 3000 THEN 1
           ELSE IF abs_status >= 4000 /\ abs_status < 5000 THEN 2
           ELSE -1
    ELSE DetRegionLoop_NoAbs(ev, i + 1, target)

\* The lambda without the test of pass[i].
RECURSIVE DetRegionLoop_IgnoresPass(_, _, _)
DetRegionLoop_IgnoresPass(ev, i, target) ==
    IF i > Len(ev) THEN -1
    ELSE IF ev[i].pid = target THEN
        LET abs_status == Abs(ev[i].status)
        IN IF abs_status >= 1000 /\ abs_status < 2000 THEN 0
           ELSE IF abs_status >= 2000 /\ abs_status < 3000 THEN 1
           ELSE IF abs_status >= 4000 /\ abs_status < 5000 THEN 2
           ELSE -1
    ELSE DetRegionLoop_IgnoresPass(ev, i + 1, target)

RECURSIVE DetRegionLoop(_, _, _)
DetRegionLoop(ev, i, target) ==
    IF i > Len(ev) THEN -1
    ELSE IF ev[i].pid = target /\ ev[i].pass THEN
        LET abs_status == Abs(ev[i].status)
        IN IF abs_status >= 1000 /\ abs_status < 2000 THEN 0
           ELSE IF abs_status >= 2000 /\ abs_status < 3000 THEN 1
           ELSE IF abs_status >= 4000 /\ abs_status < 5000 THEN 2
           ELSE -1
    ELSE DetRegionLoop(ev, i + 1, target)

DetRegion(ev, target) == DetRegionLoop(ev, 1, target)

\* The lambda of invMass_KpKm.
InvMassKpKm(px1, py1, pz1, px2, py2, pz2) ==
    LET mK == kMK
        E1 == Sqrt(px1 * px1 + py1 * py1 + pz1 * pz1 + mK * mK)
        E2 == Sqrt(px2 * px2 + py2 * py2 + pz2 * pz2 + mK * mK)
        px == px1 + px2
        py == py1 + py2
        pz == pz1 + pz2
        E  == E1 + E2
    IN Sqrt(E * E - (px * px + py * py + pz * pz))

\* A Filter that forgets the K-.
FoundFilter_ForgetsKMinus(ex, kMinusx, kPlusx, px) ==
    ex # Sentinel /\ kPlusx # Sentinel /\ px # Sentinel

\* The Filter on ele_px, kMinus_px, kPlus_px, pro_px.
FoundFilter(ex, kMinusx, kPlusx, px) ==
    ex # Sentinel /\ kMinusx # Sentinel /\ kPlusx # Sentinel /\ px # Sentinel

AllDetectedAccepts(ev) ==
    FoundFilter(SelectComponent(ev, PidElectron, "px"),
                SelectComponent(ev, PidKMinus, "px"),
                SelectComponent(ev, PidKPlus, "px"),
                SelectComponent(ev, PidProton, "px"))

AllDetectedRow(ev, beam) ==
    LET ele_px    == SelectComponent(ev, PidElectron, "px")
        ele_py    == SelectComponent(ev, PidElectron, "py")
        ele_pz    == SelectComponent(ev, PidElectron, "pz")
        kMinus_px == SelectComponent(ev, PidKMinus, "px")
        kMinus_py == SelectComponent(ev, PidKMinus, "py")
        kMinus_pz == SelectComponent(ev, PidKMinus, "pz")
        kPlus_px  == SelectComponent(ev, PidKPlus, "px")
        kPlus_py  == SelectComponent(ev, PidKPlus, "py")
        kPlus_pz  == SelectComponent(ev, PidKPlus, "pz")
        pro_px    == SelectComponent(ev, PidProton, "px")
        pro_py    == SelectComponent(ev, PidProton, "py")
        pro_pz    == SelectComponent(ev, PidProton, "pz")
    IN [mode |-> "AllDetected",
        ele_px |-> ele_px, ele_py |-> ele_py, ele_pz |-> ele_pz,
        kMinus_px |-> kMinus_px, kMinus_py |-> kMinus_py, kMinus_pz |-> kMinus_pz,
        kPlus_px |-> kPlus_px, kPlus_py |-> kPlus_py, kPlus_pz |-> kPlus_pz,
        pro_px |-> pro_px, pro_py |-> pro_py, pro_pz |-> pro_pz,
        kMinus_det_region |-> DetRegion(ev, PidKMinus),
        kPlus_det_region  |-> DetRegion(ev, PidKPlus),
        pro_det_region    |-> DetRegion(ev, PidProton),
        ele_det_region    |-> DetRegion(ev, PidElectron),
        invMass_KpKm |-> InvMassKpKm(kPlus_px, kPlus_py, kPlus_pz,
                                     kMinus_px, kMinus_py, kMinus_pz),
        observables |-> ObservableNames]
       @@ TwelveScalars(<<ele_px, ele_py, ele_pz>>, <<pro_px, pro_py, pro_pz>>,
                        <<kMinus_px, kMinus_py, kMinus_pz>>,
                        <<kPlus_px, kPlus_py, kPlus_pz>>)

\* ----------------------------------------------------------------- inputs
\* Momenta <<px, py, pz>> the particles of a kinematics event carry.
MomA == <<Scale, 0, 6 * Scale>>

MomB == <<-1, 2, Scale>>

MomC == <<2, -Scale, 2 * Scale>>

MomD == <<-Scale, -3, 3>>

Species == {PidElectron, PidProton, PidKPlus, PidKMinus}

Particle(pid, mom, pass, daughterPass, status) ==
    [pid |-> pid, px |-> mom[1], py |-> mom[2], pz |-> mom[3],
     pass |-> pass, daughterPass |-> daughterPass, status |-> status]

\* Particles of the events the pipelines run on: a passing electron and a
\* passing proton, and of either kaon two passing candidates of different
\* momenta and one that fails the quality selection.
KinParticles ==
    { Particle(PidElectron, MomC, TRUE, FALSE, 2000),
      Particle(PidProton, MomD, TRUE, FALSE, 2000) }
    \cup { Particle(pid, mom, TRUE, FALSE, 2000) :
             pid \in {PidKPlus, PidKMinus}, mom \in {MomA, MomB} }
    \cup { Particle(pid, MomC, FALSE, FALSE, 2000) : pid \in {PidKPlus, PidKMinus} }

\* Particles of the events the filters run on: every species and the photon,
\* passing with either daughter flag, and an electron and a K- that fail the
\* quality selection with the daughter flag set.
SelParticles ==
    { Particle(pid, MomA, TRUE, d, 2000) :
        pid \in Species \cup {PidPhoton}, d \in BOOLEAN }
    \cup { Particle(pid, MomA, FALSE, TRUE, 2000) : pid \in {PidElectron, PidKMinus} }

\* beam_energy of a run; no function looks at its sign.
BeamEnergies == {10 * Scale + 2, 0}

\* Values of DISANAMath::GetMx2_epKm.
Mx2Values == {-1, 0, 2}

\* ------------------------------------------------------------ state machine
Init ==
    /\ event = <<>>
    /\ beam_energy \in BeamEnergies
    /\ op = "none"
    /\ accepted = FALSE
    /\ row = NoRow

\* The event source fills the REC_Particle_* arrays of the current event.
ReadParticle(universe) ==
    /\ op = "none"
    /\ Len(event) < MaxParticles
    /\ \E q \in universe : event' = Append(event, q)
    /\ UNCHANGED <<beam_energy, op, accepted, row>>

ReadKinParticle == ReadParticle(KinParticles)

ReadSelParticle == ReadParticle(SelParticles)

\* An event loop that hands the verdict and the row of an event on to the next.
NextEvent_KeepsRow ==
    /\ op # "none"
    /\ event' = <<>>
    /\ op' = "none"
    /\ UNCHANGED <<beam_energy, accepted, row>>

\* The event loop moves on to the next event.
NextEvent ==
    /\ op # "none"
    /\ event' = <<>>
    /\ op' = "none"
    /\ accepted' = FALSE
    /\ row' = NoRow
    /\ UNCHANGED beam_energy

SelectExclusivePhiEvent ==
    /\ op = "none"
    /\ op' = "SelectExclusivePhiEvent"
    /\ accepted' = ExclusivePhiVerdict(event)
    /\ UNCHANGED <<event, beam_energy, row>>

SelectPhiEvent_MissingKm ==
    /\ op = "none"
    /\ op' = "SelectPhiEvent_MissingKm"
    /\ accepted' = MissingKmVerdict(event)
    /\ UNCHANGED <<event, beam_energy, row>>

RejectPi0TwoPhoton ==
    /\ op = "none"
    /\ op' = "RejectPi0TwoPhoton"
    /\ accepted' = Pi0Verdict(event)
    /\ UNCHANGED <<event, beam_energy, row>>

\* The pipeline with the Filter of InitKinematics put in its chain.
InitKinematics_MissingKm_Filtered ==
    /\ op = "none"
    /\ op' = "InitKinematics_MissingKm"
    /\ accepted' = (SelectComponent(event, PidElectron, "px") # Sentinel)
    /\ row' = IF SelectComponent(event, PidElectron, "px") # Sentinel
                 THEN MissingKmRow(event, beam_energy)
                 ELSE NoRow
    /\ UNCHANGED <<event, beam_energy>>

\* No Filter in the chain: every event keeps its row.
InitKinematics_MissingKm ==
    /\ op = "none"
    /\ op' = "InitKinematics_MissingKm"
    /\ accepted' = TRUE
    /\ row' = MissingKmRow(event, beam_energy)
    /\ UNCHANGED <<event, beam_energy>>

InitKinematics_MissingKp ==
    /\ op = "none"
    /\ op' = "InitKinematics_MissingKp"
    /\ accepted' = TRUE
    /\ LET columns == MissingKpColumns(event, beam_energy)
       IN \E mx2 \in Mx2Values : row' = MissingKpRow(columns, mx2)
    /\ UNCHANGED <<event, beam_energy>>

\* The Filter drops the event before any later column is defined.
InitKinematics ==
    /\ op = "none"
    /\ op' = "InitKinematics"
    /\ accepted' = AllDetectedAccepts(event)
    /\ row' = IF AllDetectedAccepts(event)
                 THEN AllDetectedRow(event, beam_energy)
                 ELSE NoRow
    /\ UNCHANGED <<event, beam_energy>>

Next ==
    \/ ReadKinParticle
    \/ InitKinematics_MissingKm
    \/ InitKinematics_MissingKp
    \/ InitKinematics
    \/ NextEvent

Spec == Init /\ [][Next]_vars

NextSel ==
    \/ ReadSelParticle
    \/ SelectExclusivePhiEvent
    \/ SelectPhiEvent_MissingKm
    \/ RejectPi0TwoPhoton
    \/ NextEvent

\* The filters take no beam energy.
InitSel ==
    /\ event = <<>>
    /\ beam_energy = 10 * Scale + 2
    /\ op = "none"
    /\ accepted = FALSE
    /\ row = NoRow

SpecSel == InitSel /\ [][NextSel]_vars

\* ------------------------------------------------- events read as a whole
\* Values of REC_Particle_status (a short): both ends of every range the
\* detector-region lambdas test, either sign, and the ends of the type.
StatusCodes ==
    {0, 999, 1000, 1999, 2000, 2999, 3000, 3999, 4000, 4999, 5000,
     -1000, -2999, -4500, -5000, 32767, -32768}

\* The status, and the momenta of the first, of a failing and of a later
\* candidate of each species.
DefaultStatus(t) ==
    IF t = PidElectron THEN 2100
    ELSE IF t = PidProton THEN 4100
    ELSE IF t = PidKPlus THEN 2200
    ELSE 2300

FirstMom(t) ==
    IF t = PidElectron THEN MomC
    ELSE IF t = PidProton THEN MomD
    ELSE IF t = PidKPlus THEN MomA
    ELSE MomB

FailingMom(t) ==
    IF t = PidElectron THEN MomD
    ELSE IF t = PidProton THEN MomC
    ELSE IF t = PidKPlus THEN MomB
    ELSE MomA

LaterMom(t) ==
    IF t = PidElectron THEN MomA
    ELSE IF t = PidProton THEN MomB
    ELSE IF t = PidKPlus THEN MomC
    ELSE MomD

\* No species: the pid of no particle.
NoSpecies == 0

\* An event with an electron, a K-, a K+ and a proton, in front of them a
\* particle of species lead that fails the quality selection and behind
\* them one more of that species.  All but the one in front pass, except
\* those of species absent, which has no passing candidate.  The particle
\* of species t among the four has status s, and the electron has ele_px
\* for its px.
RunEvent(t, s, lead, ele_px, absent) ==
    LET status(u) == IF u = t THEN s ELSE DefaultStatus(u)
        first(u)  == Particle(u, FirstMom(u), u # absent, FALSE, status(u))
    IN << Particle(lead, FailingMom(lead), FALSE, FALSE, 1500),
          [first(PidElectron) EXCEPT !.px = ele_px],
          first(PidKMinus),
          first(PidKPlus),
          first(PidProton),
          Particle(lead, LaterMom(lead), lead # absent, FALSE, 3500) >>

\* The px of the electron: any float, -999.0f too.
ElectronPx == {MomC[1], Sentinel}

\* The event source hands over the arrays of the next event.
ReadEvent ==
    /\ op = "none"
    /\ event = <<>>
    /\ \E t \in Species, s \in StatusCodes, lead \in Species,
          ele_px \in ElectronPx, absent \in Species \cup {NoSpecies} :
          event' = RunEvent(t, s, lead, ele_px, absent)
    /\ UNCHANGED <<beam_energy, op, accepted, row>>

\* A run in which every filter and every pipeline meets every such event.
NextRun ==
    \/ ReadEvent
    \/ SelectExclusivePhiEvent
    \/ SelectPhiEvent_MissingKm
    \/ RejectPi0TwoPhoton
    \/ InitKinematics_MissingKm
    \/ InitKinematics_MissingKp
    \/ InitKinematics
    \/ NextEvent

SpecRun == Init /\ [][NextRun]_vars

\* ------------------------------------------------------------------ claims
\* Indices of the quality-passing particles of a species, and their number.
Matches(ev, target) == {i \in 1..Len(ev) : ev[i].pid = target /\ ev[i].pass}

Count(ev, target) == Cardinality(Matches(ev, target))

Min(S) == CHOOSE i \in S : \A j \in S : i <= j

NotFound == <<Sentinel, Sentinel, Sentinel>>

\* The momentum of the first quality-passing particle of a species.
FirstTriple(ev, target) ==
    IF Matches(ev, target) = {} THEN NotFound
    ELSE LET i == Min(Matches(ev, target))
         IN <<ev[i].px, ev[i].py, ev[i].pz>>

Ele(r) == <<r.ele_px, r.ele_py, r.ele_pz>>

Pro(r) == <<r.pro_px, r.pro_py, r.pro_pz>>

KPlus(r) == <<r.kPlus_px, r.kPlus_py, r.kPlus_pz>>

KMinus(r) == <<r.kMinus_px, r.kMinus_py, r.kMinus_pz>>

\* C1: in each of the three pipelines every selected triple is the momentum
\* of the first particle, in stored order, of the target species that passes
\* the quality selection, and the triple (-999, -999, -999) when there is none.
C1_FirstMatch ==
    /\ op = "InitKinematics_MissingKm" =>
          /\ Ele(row) = FirstTriple(event, 11)
          /\ Pro(row) = FirstTriple(event, 2212)
          /\ KPlus(row) = FirstTriple(event, 321)
    /\ op = "InitKinematics_MissingKp" =>
          /\ Ele(row) = FirstTriple(event, 11)
          /\ Pro(row) = FirstTriple(event, 2212)
          /\ KMinus(row) = FirstTriple(event, -321)
    /\ (op = "InitKinematics" /\ accepted) =>
          /\ Ele(row) = FirstTriple(event, 11)
          /\ Pro(row) = FirstTriple(event, 2212)
          /\ KPlus(row) = FirstTriple(event, 321)
          /\ KMinus(row) = FirstTriple(event, -321)

\* Two passing K+ with different momenta behind a K+ that fails the quality
\* selection: the row holds the first passing one.
C1_Witness ==
    /\ op = "InitKinematics_MissingKm"
    /\ \E h, i, j \in 1..Len(event) :
          /\ h < i /\ i < j
          /\ event[h].pid = 321 /\ ~event[h].pass
          /\ event[i].pid = 321 /\ event[i].pass
          /\ event[j].pid = 321 /\ event[j].pass
          /\ event[i].px # event[j].px /\ event[i].px # event[h].px
          /\ row.kPlus_px = event[i].px
    /\ Ele(row) = NotFound

\* The event with its daughter flags replaced by d.
WithDaughters(ev, d) == [i \in 1..Len(ev) |-> [ev[i] EXCEPT !.daughterPass = d[i]]]

WithoutKMinus(ev) == SelectSeq(ev, LAMBDA q : q.pid # -321)

C4_RejectPi0 ==
    op = "RejectPi0TwoPhoton" =>
        IF \E i \in 1..Len(event) : event[i].pass /\ event[i].daughterPass
            THEN ~accepted
            ELSE accepted <=> (/\ Count(event, 11) = 1
                               /\ Count(event, 22) = 1
                               /\ Count(event, 2212) = 1)

\* One electron, one photon, one proton, none of them flagged, and a flagged
\* passing kaon at the end of the list: rejected.
C4_Witness ==
    /\ op = "RejectPi0TwoPhoton"
    /\ ~accepted
    /\ Count(event, 11) = 1 /\ Count(event, 22) = 1 /\ Count(event, 2212) = 1
    /\ Len(event) = 4
    /\ event[4].pid \in {321, -321} /\ event[4].pass /\ event[4].daughterPass
    /\ \A i \in 1..3 : ~event[i].daughterPass

\* C5: InitKinematics rejects every event in which the electron, the proton,
\* the K+ or the K- has no passing candidate, and such an event has no row.
C5_NotFoundRejected ==
    (op = "InitKinematics" /\ \E t \in Species : Matches(event, t) = {}) =>
        ~accepted /\ row = NoRow

\* Electron, proton and K+ found, only the K- missing: rejected, no row.
C5_Witness ==
    /\ op = "InitKinematics"
    /\ Matches(event, 11) # {} /\ Matches(event, 2212) # {}
    /\ Matches(event, 321) # {} /\ Matches(event, -321) = {}
    /\ ~accepted /\ row = NoRow

\* Largest component, in GeV, of a K- momentum chosen for the round trip.
MaxChosenGeV == 16

KMinusMiss(r) == <<r.kMinus_miss_px, r.kMinus_miss_py, r.kMinus_miss_pz>>

KPlusMiss(r) == <<r.kPlus_miss_px, r.kPlus_miss_py, r.kPlus_miss_pz>>

\* Rest masses the energies could have been computed with.
AltMasses == {0, 3 * Scale}

\* C6: in missing-K- mode the reconstructed K- components are the momentum
\* part of beam + target - electron - proton - K+, the beam along z and the
\* target at rest, whatever rest masses enter the energies.
C6_MissingKmFormula ==
    op = "InitKinematics_MissingKm" =>
        /\ row.kMinus_miss_px = -(row.ele_px + row.pro_px + row.kPlus_px)
        /\ row.kMinus_miss_py = -(row.ele_py + row.pro_py + row.kPlus_py)
        /\ row.kMinus_miss_pz = beam_energy - (row.ele_pz + row.pro_pz + row.kPlus_pz)
        /\ \A me \in AltMasses, mp \in AltMasses, mk \in AltMasses :
              LET v == MissingFourVector(beam_energy, Ele(row), Pro(row),
                                         KPlus(row), me, mp, mk)
              IN KMinusMiss(row) = <<ToFloat(v.X), ToFloat(v.Y), ToFloat(v.Z)>>

\* Electron, proton and K+ all found, with different momenta, and a
\* reconstructed K- with three components that are not zero.
C6_Witness ==
    /\ op = "InitKinematics_MissingKm"
    /\ Matches(event, 11) # {} /\ Matches(event, 2212) # {} /\ Matches(event, 321) # {}
    /\ Ele(row) # Pro(row)
    /\ row.kMinus_miss_px # 0 /\ row.kMinus_miss_py # 0 /\ row.kMinus_miss_pz # 0
    /\ row.kMinus_miss_pz = beam_energy - (row.ele_pz + row.pro_pz + row.kPlus_pz)

ChosenRange == (-(MaxChosenGeV * Scale))..(MaxChosenGeV * Scale)

\* C7: when the selected electron, proton and K+ momenta and a chosen K-
\* momentum add up to the momentum (0, 0, E_beam) of beam plus target, the
\* reconstruction returns the chosen K- momentum.
C7_RoundTrip ==
    op = "InitKinematics_MissingKm" =>
        \A k \in ChosenRange :
            /\ (row.ele_px + row.pro_px + row.kPlus_px + k = 0)
                   => row.kMinus_miss_px = k
            /\ (row.ele_py + row.pro_py + row.kPlus_py + k = 0)
                   => row.kMinus_miss_py = k
            /\ (row.ele_pz + row.pro_pz + row.kPlus_pz + k = beam_energy)
                   => row.kMinus_miss_pz = k

\* A chosen K- momentum, no component zero, that closes the balance of a
\* found electron, proton and K+, and is what the reconstruction returns.
C7_Witness ==
    /\ op = "InitKinematics_MissingKm"
    /\ Matches(event, 11) # {} /\ Matches(event, 2212) # {} /\ Matches(event, 321) # {}
    /\ \E kx \in ChosenRange \ {0}, ky \in ChosenRange \ {0}, kz \in ChosenRange \ {0} :
          /\ row.ele_px + row.pro_px + row.kPlus_px + kx = 0
          /\ row.ele_py + row.pro_py + row.kPlus_py + ky = 0
          /\ row.ele_pz + row.pro_pz + row.kPlus_pz + kz = beam_energy
          /\ KMinusMiss(row) = <<kx, ky, kz>>

\* The event with the species ids of K+ and K- exchanged.
SwapKaons(ev) ==
    [i \in 1..Len(ev) |->
        [ev[i] EXCEPT !.pid = IF @ = 321 THEN -321 ELSE IF @ = -321 THEN 321 ELSE @]]

\* C8: missing-K+ mode on an event is missing-K- mode on the event with K+
\* and K- exchanged: the same electron and proton, the detected K- where the
\* other has its detected K+, the reconstructed K+ where the other has its
\* reconstructed K-, and the twelve scalars with reckPlus_* and reckMinus_*
\* exchanged.
C8_Mirror ==
    op = "InitKinematics_MissingKp" =>
        LET m == MissingKmRow(SwapKaons(event), beam_energy)
        IN /\ Ele(row) = Ele(m)
           /\ Pro(row) = Pro(m)
           /\ KMinus(row) = KPlus(m)
           /\ KPlusMiss(row) = KMinusMiss(m)
           /\ <<row.recel_p, row.recel_theta, row.recel_phi>>
                  = <<m.recel_p, m.recel_theta, m.recel_phi>>
           /\ <<row.recpro_p, row.recpro_theta, row.recpro_phi>>
                  = <<m.recpro_p, m.recpro_theta, m.recpro_phi>>
           /\ <<row.reckMinus_p, row.reckMinus_theta, row.reckMinus_phi>>
                  = <<m.reckPlus_p, m.reckPlus_theta, m.reckPlus_phi>>
           /\ <<row.reckPlus_p, row.reckPlus_theta, row.reckPlus_phi>>
                  = <<m.reckMinus_p, m.reckMinus_theta, m.reckMinus_phi>>

\* An event with a passing K+ and a passing K- of different momenta, an
\* electron and a proton, run in missing-K+ mode: the K- is the detected kaon.
C8_Witness ==
    /\ op = "InitKinematics_MissingKp"
    /\ Matches(event, 11) # {} /\ Matches(event, 2212) # {}
    /\ Matches(event, 321) # {} /\ Matches(event, -321) # {}
    /\ FirstTriple(event, 321) # FirstTriple(event, -321)
    /\ KMinus(row) = FirstTriple(event, -321)

\* C9: in missing-K+ mode Mx_epKm_forCut is -999 when Mx2_epKm is negative
\* and the square root of Mx2_epKm when it is zero or more.
C9_AliasClaim ==
    op = "InitKinematics_MissingKp" =>
        /\ row.Mx2_epKm < 0 => row.Mx_epKm_forCut = Sentinel
        /\ row.Mx2_epKm >= 0 =>
              /\ row.Mx_epKm_forCut >= 0
              /\ row.Mx_epKm_forCut * row.Mx_epKm_forCut <= row.Mx2_epKm
              /\ row.Mx2_epKm < (row.Mx_epKm_forCut + 1) * (row.Mx_epKm_forCut + 1)

\* C10: the two missing-kaon pipelines never drop an event: whatever the
\* event holds, it keeps a row of its mode, in which the triple of every
\* species without a passing candidate is (-999, -999, -999).
C10_NeverRejects ==
    /\ op = "InitKinematics_MissingKm" =>
          /\ accepted /\ row.mode = "MissingKm"
          /\ Matches(event, 11) = {} => Ele(row) = NotFound
          /\ Matches(event, 2212) = {} => Pro(row) = NotFound
          /\ Matches(event, 321) = {} => KPlus(row) = NotFound
    /\ op = "InitKinematics_MissingKp" =>
          /\ accepted /\ row.mode = "MissingKp"
          /\ Matches(event, 11) = {} => Ele(row) = NotFound
          /\ Matches(event, 2212) = {} => Pro(row) = NotFound
          /\ Matches(event, -321) = {} => KMinus(row) = NotFound

\* An event with particles but no passing electron, proton or kaon keeps its
\* row in missing-K- mode, all three triples (-999, -999, -999).
C10_Witness ==
    /\ op = "InitKinematics_MissingKm"
    /\ Len(event) >= 2
    /\ \A t \in Species : Matches(event, t) = {}
    /\ accepted /\ row.mode = "MissingKm"
    /\ Ele(row) = NotFound /\ Pro(row) = NotFound /\ KPlus(row) = NotFound

\* The detector region of a status code: 0 forward tagger, 1 forward
\* detector, 2 central detector, -1 unknown.
RegionOfStatus(st) ==
    LET a == IF st < 0 THEN -st ELSE st
    IN IF a \in 1000..1999 THEN 0
       ELSE IF a \in 2000..2999 THEN 1
       ELSE IF a \in 4000..4999 THEN 2
       ELSE -1

RegionColumn(r, t) ==
    IF t = 11 THEN r.ele_det_region
    ELSE IF t = 2212 THEN r.pro_det_region
    ELSE IF t = 321 THEN r.kPlus_det_region
    ELSE r.kMinus_det_region

\* C11: in all-detected mode the detector-region code of the electron, the
\* proton, the K+ and the K- is the region of the absolute status code of the
\* first passing particle of the species: [1000,2000) gives 0, [2000,3000)
\* gives 1, [4000,5000) gives 2, anything else -1; it is always one of
\* -1, 0, 1, 2.
C11_DetRegion ==
    (op = "InitKinematics" /\ accepted) =>
        \A t \in Species :
            /\ RegionColumn(row, t) \in {-1, 0, 1, 2}
            /\ RegionColumn(row, t)
                   = RegionOfStatus(event[Min(Matches(event, t))].status)

\* A proton of status -2999 behind a failing proton of status 1500 and before
\* a passing one of status 3500: forward detector.
C11_Witness ==
    /\ op = "InitKinematics" /\ accepted
    /\ event[1].pid = 2212 /\ ~event[1].pass /\ event[1].status = 1500
    /\ event[Min(Matches(event, 2212))].status = -2999
    /\ event[6].pid = 2212 /\ event[6].pass /\ event[6].status = 3500
    /\ row.pro_det_region = 1

\* C12: a pipeline built with a beam energy that is not positive produces no
\* row for any event.
C12_ConfigFatal ==
    beam_energy <= 0 => row = NoRow

\* The columns of a row that the file itself computes.
OwnColumns(r) ==
    [k \in DOMAIN r \ {"Mx2_epKm", "Mx2_epKm_forCut", "Mx_epKm_forCut"} |-> r[k]]

MaxPhiArg == 6

\* The <<px, py, phi>> of every azimuthal angle a row holds.
PhiColumns(r) ==
    { <<r.ele_px, r.ele_py, r.recel_phi>>, <<r.pro_px, r.pro_py, r.recpro_phi>> }
    \cup (IF "kPlus_px" \in DOMAIN r
              THEN { <<r.kPlus_px, r.kPlus_py, r.reckPlus_phi>> }
              ELSE { <<r.kPlus_miss_px, r.kPlus_miss_py, r.reckPlus_phi>> })
    \cup (IF "kMinus_px" \in DOMAIN r
              THEN { <<r.kMinus_px, r.kMinus_py, r.reckMinus_phi>> }
              ELSE { <<r.kMinus_miss_px, r.kMinus_miss_py, r.reckMinus_phi>> })

\* The eight octants of [0, 2 pi), in units of pi/4.
FullTurn == 0..7

\* C14: PhiFunc(px, py) lies in [0, 2 pi) for all px and py, is the angle of
\* atan2 when that is not negative and the angle of atan2 plus 2 pi when it
\* is; so is every azimuthal angle of every row.
C14_PhiRange ==
    /\ \A px \in (-MaxPhiArg)..MaxPhiArg, py \in (-MaxPhiArg)..MaxPhiArg :
          /\ PhiFunc(px, py) \in FullTurn
          /\ Atan2(py, px) >= 0 => PhiFunc(px, py) = Atan2(py, px)
          /\ Atan2(py, px) < 0 => PhiFunc(px, py) = Atan2(py, px) + 8
    /\ row # NoRow =>
          \A c \in PhiColumns(row) :
              /\ c[3] \in FullTurn
              /\ c[3] = IF Atan2(c[2], c[1]) < 0 THEN Atan2(c[2], c[1]) + 8
                                                ELSE Atan2(c[2], c[1])

\* A row whose electron points below the x axis and whose K+ lies on it: the
\* one angle was shifted, the other was not.
C14_Witness ==
    /\ op = "InitKinematics_MissingKm"
    /\ Matches(event, 11) # {} /\ Matches(event, 321) # {}
    /\ Atan2(row.ele_py, row.ele_px) = -2 /\ row.recel_phi = 6
    /\ Atan2(row.kPlus_py, row.kPlus_px) = 0 /\ row.reckPlus_phi = 0

\* Magnitude, polar angle and azimuthal angle of a momentum <<px, py, pz>>.
Spherical(m) ==
    <<MomentumFunc(m[1], m[2], m[3]), ThetaFunc(m[1], m[2], m[3]), PhiFunc(m[1], m[2])>>

RecKMinus(r) == <<r.reckMinus_p, r.reckMinus_theta, r.reckMinus_phi>>

RecKPlus(r) == <<r.reckPlus_p, r.reckPlus_theta, r.reckPlus_phi>>

\* The kaon columns a row has beside the twelve scalars.
KaonColumns(r) ==
    DOMAIN r \cap {"kPlus_px", "kPlus_py", "kPlus_pz",
                   "kMinus_px", "kMinus_py", "kMinus_pz",
                   "kPlus_miss_px", "kPlus_miss_py", "kPlus_miss_pz",
                   "kMinus_miss_px", "kMinus_miss_py", "kMinus_miss_pz"}

\* C15: in missing-K- mode reckMinus_* come from the reconstructed
\* kMinus_miss components and reckPlus_* from the detected K+; in missing-K+
\* mode reckPlus_* come from the reconstructed kPlus_miss components and
\* reckMinus_* from the detected K-; in all-detected mode both come from the
\* selected particles.  A missing mode reconstructs one kaon and selects the
\* other, all-detected mode reconstructs none.
C15_Provenance ==
    /\ op = "InitKinematics_MissingKm" =>
          /\ RecKMinus(row) = Spherical(KMinusMiss(row))
          /\ RecKPlus(row) = Spherical(FirstTriple(event, 321))
          /\ KaonColumns(row) = {"kPlus_px", "kPlus_py", "kPlus_pz",
                                 "kMinus_miss_px", "kMinus_miss_py", "kMinus_miss_pz"}
    /\ op = "InitKinematics_MissingKp" =>
          /\ RecKPlus(row) = Spherical(KPlusMiss(row))
          /\ RecKMinus(row) = Spherical(FirstTriple(event, -321))
          /\ KaonColumns(row) = {"kMinus_px", "kMinus_py", "kMinus_pz",
                                 "kPlus_miss_px", "kPlus_miss_py", "kPlus_miss_pz"}
    /\ (op = "InitKinematics" /\ accepted) =>
          /\ RecKPlus(row) = Spherical(FirstTriple(event, 321))
          /\ RecKMinus(row) = Spherical(FirstTriple(event, -321))
          /\ KaonColumns(row) = {"kPlus_px", "kPlus_py", "kPlus_pz",
                                 "kMinus_px", "kMinus_py", "kMinus_pz"}

\* Missing-K- mode on an event that does hold a passing K-: reckMinus_* are
\* those of the reconstructed momentum, which the detected K- does not have.
C15_Witness ==
    /\ op = "InitKinematics_MissingKm"
    /\ Matches(event, 11) # {} /\ Matches(event, 2212) # {}
    /\ Matches(event, 321) # {} /\ Matches(event, -321) # {}
    /\ RecKMinus(row) = Spherical(KMinusMiss(row))
    /\ RecKMinus(row) # Spherical(FirstTriple(event, -321))
    /\ RecKPlus(row) # RecKMinus(row)

\* C16: every event SelectExclusivePhiEvent or SelectPhiEvent_MissingKm
\* accepts holds exactly one passing proton.
C16_OneProton ==
    (op \in {"SelectExclusivePhiEvent", "SelectPhiEvent_MissingKm"} /\ accepted)
        => Count(event, 2212) = 1

\* A selected triple is the momentum of one passing particle of the species,
\* or (-999, -999, -999) when the species has none.
OneCandidate(ev, t, triple) ==
    IF Matches(ev, t) = {} THEN triple = NotFound
    ELSE \E i \in Matches(ev, t) : triple = <<ev[i].px, ev[i].py, ev[i].pz>>

TripleColumn(r, t) ==
    IF t = 11 THEN Ele(r)
    ELSE IF t = 2212 THEN Pro(r)
    ELSE IF t = 321 THEN KPlus(r)
    ELSE KMinus(r)

\* C17: the px, py and pz a pipeline selects for a species are those of one
\* and the same particle, or all three -999; in all-detected mode the
\* detector region of the species is that of the same particle.
C17_SameCandidate ==
    /\ op = "InitKinematics_MissingKm" =>
          \A t \in {11, 2212, 321} : OneCandidate(event, t, TripleColumn(row, t))
    /\ op = "InitKinematics_MissingKp" =>
          \A t \in {11, 2212, -321} : OneCandidate(event, t, TripleColumn(row, t))
    /\ (op = "InitKinematics" /\ accepted) =>
          \A t \in Species :
              \E i \in Matches(event, t) :
                  /\ TripleColumn(row, t) = <<event[i].px, event[i].py, event[i].pz>>
                  /\ RegionColumn(row, t) = RegionOfStatus(event[i].status)

\* A K+ that fails in front, the first passing K+ and a later passing K+,
\* the three in three different regions and of three different momenta: the
\* triple and the region are those of the first passing one.
C17_Witness ==
    /\ op = "InitKinematics" /\ accepted
    /\ event[1].pid = 321 /\ event[4].pid = 321 /\ event[6].pid = 321
    /\ ~event[1].pass /\ event[4].pass /\ event[6].pass
    /\ KPlus(row) = <<event[4].px, event[4].py, event[4].pz>>
    /\ row.kPlus_det_region = RegionOfStatus(event[4].status)
    /\ \A i \in {1, 6} :
          /\ event[i].px # event[4].px /\ event[i].py # event[4].py
          /\ event[i].pz # event[4].pz
          /\ RegionOfStatus(event[i].status) # RegionOfStatus(event[4].status)

\* The event without its K+.
WithoutKPlus(ev) == SelectSeq(ev, LAMBDA q : q.pid # 321)

\* C18: in missing-K- mode the row of an event is the row of the event
\* without its K-, and the row of the event with one more K- of any momentum
\* and flag put in front of it; so it is in missing-K+ mode for the K+, for
\* every column the file computes.
C18_NonInterference ==
    /\ op = "InitKinematics_MissingKm" =>
          /\ row = MissingKmRow(WithoutKMinus(event), beam_energy)
          /\ \A q \in {k \in KinParticles : k.pid = -321} :
                row = MissingKmRow(<<q>> \o event, beam_energy)
    /\ op = "InitKinematics_MissingKp" =>
          /\ OwnColumns(row) = MissingKpColumns(WithoutKPlus(event), beam_energy)
                                   @@ [observables |-> ObservableNames]
          /\ \A q \in {k \in KinParticles : k.pid = 321} :
                OwnColumns(row) = MissingKpColumns(<<q>> \o event, beam_energy)
                                      @@ [observables |-> ObservableNames]

\* Missing-K- mode on an event with an electron, a proton, a K+ and a passing
\* K- whose momentum the reconstruction does not return: the row is that of
\* the event without the K-.
C18_Witness ==
    /\ op = "InitKinematics_MissingKm"
    /\ Matches(event, 11) # {} /\ Matches(event, 2212) # {} /\ Matches(event, 321) # {}
    /\ Count(event, -321) >= 1
    /\ FirstTriple(event, -321) # KMinusMiss(row)
    /\ row = MissingKmRow(WithoutKMinus(event), beam_energy)
    /\ Len(WithoutKMinus(event)) < Len(event)

\* C19: InitKinematics keeps every event in which the electron, the proton,
\* the K+ and the K- each have a passing candidate, whatever the momenta of
\* the candidates.
C19_OnlyMissingRejected ==
    (op = "InitKinematics" /\ \A t \in Species : Matches(event, t) # {})
        => accepted

====
